---- MODULE Spec2Model ----
(***************************************************************************)
(* Model of app.py: the numerology calculators (reduce_number and the four *)
(* derived numbers), the three advice requests, the PDF report and the     *)
(* "Get Insights" handler that runs them for one browser session.          *)
(*                                                                         *)
(* Characters are Unicode code points (ord).  A str is a sequence of code  *)
(* points.  Five specifications share the variables:                       *)
(*   SpecReduce      the while loop of reduce_number, one call             *)
(*   SpecDate        calculate_life_path_number applied to a date          *)
(*   SpecName        the three name calculators applied to a name          *)
(*   Spec            the handler, one session                              *)
(*   SpecConcurrent  the handler, two sessions of the same server process  *)
(***************************************************************************)
EXTENDS Integers, Sequences, FiniteSets, TLC

VARIABLES
    r_arg, r_num, r_pc,                       \* reduce_number: argument, local num, position
    d_date, d_life,                           \* calculate_life_path_number: argument, result
    n_name, n_expr, n_soul, n_pers,           \* name calculators: argument, results
    pc, full_name, birthdate,                 \* per session: position, widget values
    life_path, expression_number,             \* per session: locals of the handler
    soul_urge_number, personality_number,
    career_advice, relationship_advice, action_steps,
    trace,                                    \* per session: the effects of the run, in order
    opened,                                   \* per session: what open(pdf_file) handed to the download button
    disk                                      \* numerology_report.pdf in the working directory

reduceVars == <<r_arg, r_num, r_pc>>
dateVars == <<d_date, d_life>>
nameVars == <<n_name, n_expr, n_soul, n_pers>>
pipeVars == <<pc, full_name, birthdate, life_path, expression_number,
              soul_urge_number, personality_number, career_advice,
              relationship_advice, action_steps, trace, opened, disk>>
vars == <<reduceVars, dateVars, nameVars, pipeVars>>

(***************************************************************************)
(* Bounds                                                                  *)
(***************************************************************************)
\* largest argument given to reduce_number in SpecReduce
MaxNum == 2100
\* last year of the dates given to calculate_life_path_number in SpecDate
MaxYear == 2026
\* longest name given to the name calculators in SpecName and typed into the form in Spec
MaxNameLen == 3

\* min_value of the date widget
MinYear == 1970

(***************************************************************************)
(* Results of a call: not yet run, a returned value, or a raised TypeError *)
(***************************************************************************)
NotRun == [st |-> "none", val |-> 0]
Value(v) == [st |-> "ok", val |-> v]
Raised == [st |-> "TypeError", val |-> 0]

(***************************************************************************)
(* reduce_number                                                           *)
(***************************************************************************)
RECURSIVE SumSeq(_)
SumSeq(s) == IF s = <<>> THEN 0 ELSE Head(s) + SumSeq(Tail(s))

\* str(num) for num >= 0, as the sequence of its decimal digits
RECURSIVE Str(_)
Str(num) == IF num < 10 THEN <<num>> ELSE Append(Str(num \div 10), num % 10)

\* sum([int(i) for i in str(num)])
DigitSum(num) == SumSeq(Str(num))

MasterNumbers == {11, 22, 33}

LoopCondNoMaster(num) == num > 9
LoopCondOffByOne(num) == num > 10 /\ num \notin MasterNumbers
LoopCondNineLoops(num) == num >= 9 /\ num \notin MasterNumbers
\* the while condition
LoopCond(num) == num > 9 /\ num \notin MasterNumbers

RECURSIVE reduce_number(_)
reduce_number(num) ==
    IF LoopCond(num) THEN reduce_number(DigitSum(num)) ELSE num

\* one call of reduce_number, statement by statement
ReduceInit ==
    /\ r_arg \in 0..MaxNum
    /\ r_num = r_arg
    /\ r_pc = "while"

LoopBody ==
    /\ r_pc = "while"
    /\ LoopCond(r_num)
    /\ r_num' = DigitSum(r_num)
    /\ UNCHANGED <<r_arg, r_pc>>
    /\ UNCHANGED <<dateVars, nameVars, pipeVars>>

LoopExit ==
    /\ r_pc = "while"
    /\ ~LoopCond(r_num)
    /\ r_pc' = "return"
    /\ UNCHANGED <<r_arg, r_num>>
    /\ UNCHANGED <<dateVars, nameVars, pipeVars>>

(***************************************************************************)
(* calculate_life_path_number                                              *)
(***************************************************************************)
IsLeap(y) == (y % 4 = 0 /\ y % 100 # 0) \/ y % 400 = 0

DaysInMonth(y, m) ==
    IF m = 2 THEN (IF IsLeap(y) THEN 29 ELSE 28)
    ELSE IF m \in {4, 6, 9, 11} THEN 30 ELSE 31

\* the datetime.date values from MinYear-01-01 to MaxYear-12-31
Dates ==
    {dt \in [year : MinYear..MaxYear, month : 1..12, day : 1..31] :
        dt.day <= DaysInMonth(dt.year, dt.month)}

life_path_reduce_each_part(birthdate_) ==
    reduce_number(reduce_number(birthdate_.year) + reduce_number(birthdate_.month)
                  + reduce_number(birthdate_.day))
calculate_life_path_number(birthdate_) ==
    reduce_number(birthdate_.year + birthdate_.month + birthdate_.day)

DateInit ==
    /\ d_date \in Dates
    /\ d_life = NotRun

LifePathCall ==
    /\ d_life = NotRun
    /\ d_life' = Value(calculate_life_path_number(d_date))
    /\ UNCHANGED d_date
    /\ UNCHANGED <<reduceVars, nameVars, pipeVars>>

(***************************************************************************)
(* Characters: str.isalpha, str.lower, ord, and the substring test `in`    *)
(***************************************************************************)
\* the characters names are typed from:
\*   ' ' 'A' 'U' 'a' 'n' 'y'  U+00E9 (e acute)  U+0130 (capital I with dot above)
Chars == {32, 65, 85, 97, 110, 121, 233, 304}

AsciiLetters == (65..90) \cup (97..122)

\* c.isalpha(): the letters of ASCII and Latin-1, and U+0130
isalpha(c) ==
    c \in AsciiLetters \cup (192..214) \cup (216..246) \cup (248..255) \cup {304}

\* c.lower(), a str: U+0130 lowers to the two characters 'i' U+0307
lower(c) ==
    IF c \in (65..90) \cup (192..214) \cup (216..222) THEN <<c + 32>>
    ELSE IF c = 304 THEN <<105, 775>>
    ELSE <<c>>

\* sub in s, for two strs
IsSubstring(sub, s) ==
    \E i \in 0..(Len(s) - Len(sub)) : SubSeq(s, i + 1, i + Len(sub)) = sub

\* all strs over Chars of length at most k
StrsUpTo(k) == UNION {[1..j -> Chars] : j \in 0..k}

(***************************************************************************)
(* letter_to_number and the three name calculators                         *)
(***************************************************************************)
\* ord(letter.lower()) - 96; ord raises TypeError unless its argument has length 1
letter_to_number(letter) ==
    IF Len(lower(letter)) = 1 THEN Value(lower(letter)[1] - 96) ELSE Raised

vowels_with_y == <<97, 101, 105, 111, 117, 121>>
\* vowels = "aeiou"
vowels == <<97, 101, 105, 111, 117>>

\* reduce_number(sum([letter_to_number(c) for c in selected]))
ReduceSumOf(selected) ==
    LET terms == [i \in 1..Len(selected) |-> letter_to_number(selected[i])]
    IN  IF \E i \in 1..Len(selected) : terms[i].st # "ok" THEN Raised
        ELSE Value(reduce_number(SumSeq([i \in 1..Len(selected) |-> terms[i].val])))

calculate_expression_number(full_name_) ==
    ReduceSumOf(SelectSeq(full_name_, isalpha))

InVowels(c) == IsSubstring(lower(c), vowels)

calculate_soul_urge_number(full_name_) ==
    ReduceSumOf(SelectSeq(full_name_, InVowels))

IsConsonant(c) == isalpha(c) /\ ~InVowels(c)

calculate_personality_number(full_name_) ==
    ReduceSumOf(SelectSeq(full_name_, IsConsonant))

NameInit ==
    /\ n_name \in StrsUpTo(MaxNameLen)
    /\ n_expr = NotRun
    /\ n_soul = NotRun
    /\ n_pers = NotRun

ExpressionCall ==
    /\ n_expr = NotRun
    /\ n_expr' = calculate_expression_number(n_name)
    /\ UNCHANGED <<n_name, n_soul, n_pers>>
    /\ UNCHANGED <<reduceVars, dateVars, pipeVars>>

SoulUrgeCall ==
    /\ n_soul = NotRun
    /\ n_soul' = calculate_soul_urge_number(n_name)
    /\ UNCHANGED <<n_name, n_expr, n_pers>>
    /\ UNCHANGED <<reduceVars, dateVars, pipeVars>>

PersonalityCall ==
    /\ n_pers = NotRun
    /\ n_pers' = calculate_personality_number(n_name)
    /\ UNCHANGED <<n_name, n_expr, n_soul>>
    /\ UNCHANGED <<reduceVars, dateVars, pipeVars>>

(***************************************************************************)
(* remove_non_ascii and generate_pdf_report                                *)
(***************************************************************************)
\* unicodedata.normalize('NFKD', c) for one character: the accented letters
\* decompose into a base letter and a combining mark
NFKD(c) ==
    IF c = 233 THEN <<101, 769>>
    ELSE IF c = 304 THEN <<73, 775>>
    ELSE <<c>>

RECURSIVE Normalize(_)
Normalize(text) ==
    IF text = <<>> THEN <<>> ELSE NFKD(Head(text)) \o Normalize(Tail(text))

IsAscii(c) == c < 128

\* .encode('ascii', 'ignore').decode('ascii') after the normalisation
remove_non_ascii(text) == SelectSeq(Normalize(text), IsAscii)

\* the cells of the PDF, in the order they are added
generate_pdf_report(lp, ex, su, pe, career, relationship, steps) ==
    [title |-> "Numerology Report",
     numbers |-> << <<"Life Path", lp>>, <<"Expression", ex>>,
                    <<"Soul Urge", su>>, <<"Personality", pe>> >>,
     sections |-> << <<"Career Advice:", remove_non_ascii(career)>>,
                     <<"Relationship Advice:", remove_non_ascii(relationship)>>,
                     <<"Action Steps:", remove_non_ascii(steps)>> >>]

(***************************************************************************)
(* The "Get Insights" handler.  Each browser session runs the script in    *)
(* its own thread of one server process; the model follows one submission  *)
(* per session.                                                            *)
(***************************************************************************)
Sessions == {"A", "B"}

\* the texts the completion service answers with: "a", and a bullet followed by e acute
AdviceTexts == {<<97>>, <<8226, 233>>}

\* value of the date widget before it is edited
DefaultDate == [year |-> 2000, month |-> 1, day |-> 1]

\* the names typed into the form in Spec
SubmitNames == StrsUpTo(MaxNameLen)

\* the dates picked in the form: min_value, the default, and 1990-05-15
SubmitDates ==
    {[year |-> MinYear, month |-> 1, day |-> 1], DefaultDate,
     [year |-> 1990, month |-> 5, day |-> 15]}

\* the names and dates typed into the two forms in SpecConcurrent: "", "Ann", "y"
ConcurrentNames == {<<>>, <<65, 110, 110>>, <<121>>}
ConcurrentDates == {DefaultDate}

\* a report left in the working directory by an earlier submission
EarlierReport == generate_pdf_report(1, 1, 1, 1, <<97>>, <<97>>, <<97>>)

Ev(e, w, n) == [ev |-> e, what |-> w, num |-> n]

PipeInit ==
    /\ pc = [s \in Sessions |-> "idle"]
    /\ full_name = [s \in Sessions |-> <<>>]
    /\ birthdate = [s \in Sessions |-> DefaultDate]
    /\ life_path = [s \in Sessions |-> NotRun]
    /\ expression_number = [s \in Sessions |-> NotRun]
    /\ soul_urge_number = [s \in Sessions |-> NotRun]
    /\ personality_number = [s \in Sessions |-> NotRun]
    /\ career_advice = [s \in Sessions |-> <<>>]
    /\ relationship_advice = [s \in Sessions |-> <<>>]
    /\ action_steps = [s \in Sessions |-> <<>>]
    /\ trace = [s \in Sessions |-> <<>>]
    /\ opened = [s \in Sessions |-> <<>>]
    /\ disk \in {<<>>, <<EarlierReport>>}

input_check_date_only(full_name_, birthdate_) == birthdate_ \in Dates
\* if full_name and birthdate: a str is true unless empty, a date is always true
input_check(full_name_, birthdate_) == full_name_ # <<>> /\ birthdate_ \in Dates

NextStmtSkipsActionSteps(p) ==
    CASE p = "calc" -> "career"
      [] p = "career" -> "relationship"
      [] p = "relationship" -> "display"
      [] p = "action" -> "display"
      [] p = "display" -> "plot"
      [] p = "plot" -> "pdf"
      [] p = "pdf" -> "open"
      [] p = "open" -> "download"
      [] p = "download" -> "done"
\* the statement that follows statement p of the handler
NextStmt(p) ==
    CASE p = "calc" -> "career"
      [] p = "career" -> "relationship"
      [] p = "relationship" -> "action"
      [] p = "action" -> "display"
      [] p = "display" -> "plot"
      [] p = "plot" -> "pdf"
      [] p = "pdf" -> "open"
      [] p = "open" -> "download"
      [] p = "download" -> "done"

OnServiceErrorSwallowed(p) == NextStmt(p)
\* an exception of openai.chat.completions.create is caught nowhere: the run ends
OnServiceError(p) == "exception"

\* the user fills the form and presses "Get Insights"
Submit(s, names, dates) ==
    /\ pc[s] = "idle"
    /\ \E nm \in names, dt \in dates :
          /\ full_name' = [full_name EXCEPT ![s] = nm]
          /\ birthdate' = [birthdate EXCEPT ![s] = dt]
    /\ pc' = [pc EXCEPT ![s] = "check"]
    /\ UNCHANGED <<life_path, expression_number, soul_urge_number, personality_number,
                   career_advice, relationship_advice, action_steps, trace, opened, disk>>
    /\ UNCHANGED <<reduceVars, dateVars, nameVars>>

\* if full_name and birthdate: ... else: st.error(...)
Check(s) ==
    /\ pc[s] = "check"
    /\ IF input_check(full_name[s], birthdate[s])
       THEN /\ pc' = [pc EXCEPT ![s] = "calc"]
            /\ UNCHANGED trace
       ELSE /\ pc' = [pc EXCEPT ![s] = "done"]
            /\ trace' = [trace EXCEPT ![s] = Append(@, Ev("st.error", "validation", 0))]
    /\ UNCHANGED <<full_name, birthdate, life_path, expression_number, soul_urge_number,
                   personality_number, career_advice, relationship_advice, action_steps,
                   opened, disk>>
    /\ UNCHANGED <<reduceVars, dateVars, nameVars>>

\* the four calculations; a TypeError of ord ends the run at the call that raises
Calculate(s) ==
    /\ pc[s] = "calc"
    /\ LET lp == Value(calculate_life_path_number(birthdate[s]))
           ex == calculate_expression_number(full_name[s])
           su == calculate_soul_urge_number(full_name[s])
           pe == calculate_personality_number(full_name[s])
           ok1 == ex.st = "ok"
           ok2 == ok1 /\ su.st = "ok"
           ok3 == ok2 /\ pe.st = "ok"
       IN  /\ life_path' = [life_path EXCEPT ![s] = lp]
           /\ expression_number' = [expression_number EXCEPT ![s] = ex]
           /\ soul_urge_number' =
                 [soul_urge_number EXCEPT ![s] = IF ok1 THEN su ELSE NotRun]
           /\ personality_number' =
                 [personality_number EXCEPT ![s] = IF ok2 THEN pe ELSE NotRun]
           /\ IF ok3
              THEN /\ pc' = [pc EXCEPT ![s] = NextStmt("calc")]
                   /\ trace' = [trace EXCEPT ![s] = Append(@, Ev("calculated", "profile", 0))]
              ELSE /\ pc' = [pc EXCEPT ![s] = "exception"]
                   /\ trace' = [trace EXCEPT ![s] = Append(@, Ev("raise", "TypeError", 0))]
    /\ UNCHANGED <<full_name, birthdate, career_advice, relationship_advice, action_steps,
                   opened, disk>>
    /\ UNCHANGED <<reduceVars, dateVars, nameVars>>

\* the number each advice function puts in its prompt
PromptNumber(s, p) ==
    CASE p = "career" -> life_path[s].val
      [] p = "relationship" -> soul_urge_number[s].val
      [] p = "action" -> expression_number[s].val

\* career_advice = get_career_advice(life_path): one request, answered
GetCareerAdvice(s, texts) ==
    /\ pc[s] = "career"
    /\ \E t \in texts : career_advice' = [career_advice EXCEPT ![s] = t]
    /\ trace' = [trace EXCEPT ![s] = Append(@, Ev("request", "career", PromptNumber(s, "career")))]
    /\ pc' = [pc EXCEPT ![s] = NextStmt("career")]
    /\ UNCHANGED <<full_name, birthdate, life_path, expression_number, soul_urge_number,
                   personality_number, relationship_advice, action_steps, opened, disk>>
    /\ UNCHANGED <<reduceVars, dateVars, nameVars>>

\* relationship_advice = get_relationship_advice(soul_urge_number)
GetRelationshipAdvice(s, texts) ==
    /\ pc[s] = "relationship"
    /\ \E t \in texts : relationship_advice' = [relationship_advice EXCEPT ![s] = t]
    /\ trace' = [trace EXCEPT ![s] =
                    Append(@, Ev("request", "relationship", PromptNumber(s, "relationship")))]
    /\ pc' = [pc EXCEPT ![s] = NextStmt("relationship")]
    /\ UNCHANGED <<full_name, birthdate, life_path, expression_number, soul_urge_number,
                   personality_number, career_advice, action_steps, opened, disk>>
    /\ UNCHANGED <<reduceVars, dateVars, nameVars>>

\* action_steps = get_action_steps(expression_number)
GetActionSteps(s, texts) ==
    /\ pc[s] = "action"
    /\ \E t \in texts : action_steps' = [action_steps EXCEPT ![s] = t]
    /\ trace' = [trace EXCEPT ![s] = Append(@, Ev("request", "action", PromptNumber(s, "action")))]
    /\ pc' = [pc EXCEPT ![s] = NextStmt("action")]
    /\ UNCHANGED <<full_name, birthdate, life_path, expression_number, soul_urge_number,
                   personality_number, career_advice, relationship_advice, opened, disk>>
    /\ UNCHANGED <<reduceVars, dateVars, nameVars>>

\* the request of any of the three advice functions is made and the service raises
AdviceFails(s) ==
    /\ pc[s] \in {"career", "relationship", "action"}
    /\ trace' = [trace EXCEPT ![s] =
                    @ \o <<Ev("request", pc[s], PromptNumber(s, pc[s])),
                           Ev("raise", "ServiceError", 0)>>]
    /\ pc' = [pc EXCEPT ![s] = OnServiceError(pc[s])]
    /\ UNCHANGED <<full_name, birthdate, life_path, expression_number, soul_urge_number,
                   personality_number, career_advice, relationship_advice, action_steps,
                   opened, disk>>
    /\ UNCHANGED <<reduceVars, dateVars, nameVars>>

\* the numbers and the three advice texts are written to the page
Display(s) ==
    /\ pc[s] = "display"
    /\ trace' = [trace EXCEPT ![s] = Append(@, Ev("show", "report", 0))]
    /\ pc' = [pc EXCEPT ![s] = NextStmt("display")]
    /\ UNCHANGED <<full_name, birthdate, life_path, expression_number, soul_urge_number,
                   personality_number, career_advice, relationship_advice, action_steps,
                   opened, disk>>
    /\ UNCHANGED <<reduceVars, dateVars, nameVars>>

\* plot_numerology_numbers(...)
Plot(s) ==
    /\ pc[s] = "plot"
    /\ trace' = [trace EXCEPT ![s] = Append(@, Ev("chart", "bars", 0))]
    /\ pc' = [pc EXCEPT ![s] = NextStmt("plot")]
    /\ UNCHANGED <<full_name, birthdate, life_path, expression_number, soul_urge_number,
                   personality_number, career_advice, relationship_advice, action_steps,
                   opened, disk>>
    /\ UNCHANGED <<reduceVars, dateVars, nameVars>>

\* the report this session's locals give
OwnReport(s) ==
    generate_pdf_report(life_path[s].val, expression_number[s].val,
                        soul_urge_number[s].val, personality_number[s].val,
                        career_advice[s], relationship_advice[s], action_steps[s])

\* pdf_file = generate_pdf_report(...): pdf.output("numerology_report.pdf")
GeneratePdf(s) ==
    /\ pc[s] = "pdf"
    /\ disk' = <<OwnReport(s)>>
    /\ trace' = [trace EXCEPT ![s] = Append(@, Ev("pdf", "written", 0))]
    /\ pc' = [pc EXCEPT ![s] = NextStmt("pdf")]
    /\ UNCHANGED <<full_name, birthdate, life_path, expression_number, soul_urge_number,
                   personality_number, career_advice, relationship_advice, action_steps,
                   opened>>
    /\ UNCHANGED <<reduceVars, dateVars, nameVars>>

\* with open(pdf_file, "rb") as f
OpenPdf(s) ==
    /\ pc[s] = "open"
    /\ opened' = [opened EXCEPT ![s] = disk]
    /\ trace' = [trace EXCEPT ![s] = Append(@, Ev("open", "read", 0))]
    /\ pc' = [pc EXCEPT ![s] = NextStmt("open")]
    /\ UNCHANGED <<full_name, birthdate, life_path, expression_number, soul_urge_number,
                   personality_number, career_advice, relationship_advice, action_steps,
                   disk>>
    /\ UNCHANGED <<reduceVars, dateVars, nameVars>>

\* st.download_button("Download PDF Report", f, ...)
Download(s) ==
    /\ pc[s] = "download"
    /\ trace' = [trace EXCEPT ![s] = Append(@, Ev("download", "offered", 0))]
    /\ pc' = [pc EXCEPT ![s] = NextStmt("download")]
    /\ UNCHANGED <<full_name, birthdate, life_path, expression_number, soul_urge_number,
                   personality_number, career_advice, relationship_advice, action_steps,
                   opened, disk>>
    /\ UNCHANGED <<reduceVars, dateVars, nameVars>>

(***************************************************************************)
(* Specifications                                                          *)
(***************************************************************************)
ReduceIdle == r_arg = 0 /\ r_num = 0 /\ r_pc = "idle"
DateIdle == d_date = DefaultDate /\ d_life = NotRun
NameIdle == n_name = <<>> /\ n_expr = NotRun /\ n_soul = NotRun /\ n_pers = NotRun
PipeIdle == PipeInit /\ disk = <<>>

InitReduce == ReduceInit /\ DateIdle /\ NameIdle /\ PipeIdle
NextReduce == LoopBody \/ LoopExit
\* the loop is the only thread of the call: it takes its next step
SpecReduce == InitReduce /\ [][NextReduce]_vars /\ WF_vars(NextReduce)

InitDate == ReduceIdle /\ DateInit /\ NameIdle /\ PipeIdle
NextDate == LifePathCall
SpecDate == InitDate /\ [][NextDate]_vars

InitName == ReduceIdle /\ DateIdle /\ NameInit /\ PipeIdle
NextName == ExpressionCall \/ SoulUrgeCall \/ PersonalityCall
SpecName == InitName /\ [][NextName]_vars

Run(s, names, dates, texts) ==
    \/ Submit(s, names, dates)
    \/ Check(s)
    \/ Calculate(s)
    \/ GetCareerAdvice(s, texts)
    \/ GetRelationshipAdvice(s, texts)
    \/ GetActionSteps(s, texts)
    \/ AdviceFails(s)
    \/ Display(s)
    \/ Plot(s)
    \/ GeneratePdf(s)
    \/ OpenPdf(s)
    \/ Download(s)

Init == ReduceIdle /\ DateIdle /\ NameIdle /\ PipeInit
Next == Run("A", SubmitNames, SubmitDates, AdviceTexts)
Spec == Init /\ [][Next]_vars

NextConcurrent == \E s \in Sessions : Run(s, ConcurrentNames, ConcurrentDates, AdviceTexts)
SpecConcurrent == Init /\ [][NextConcurrent]_vars

(***************************************************************************)
(* Properties                                                              *)
(***************************************************************************)
ReducedRange == (0..9) \cup {11, 22, 33}
ProfileRange == (1..9) \cup {11, 22, 33}

\* the digit sum, by division
RECURSIVE DecimalDigitSum(_)
DecimalDigitSum(n) == IF n < 10 THEN n ELSE (n % 10) + DecimalDigitSum(n \div 10)

\* the k-th value of the sequence n, digitsum(n), digitsum(digitsum(n)), ...
RECURSIVE Iter(_, _)
Iter(n, k) == IF k = 0 THEN n ELSE DecimalDigitSum(Iter(n, k - 1))

Stops(v) == v <= 9 \/ v \in {11, 22, 33}

\* the first value of that sequence that is <= 9 or a master number
FirstStop(n) ==
    Iter(n, CHOOSE k \in 0..n :
                /\ Stops(Iter(n, k))
                /\ \A j \in 0..(k - 1) : ~Stops(Iter(n, j)))

\* C1: every call of reduce_number on a non-negative integer returns, and what
\* it returns is 0..9, 11, 22 or 33.
C1_ReduceTerminatesInRange ==
    /\ <>(r_pc = "return")
    /\ [](r_pc = "return" => r_num \in ReducedRange)

\* a call on 199 has gone three times through the loop body and returned 1
C1_Witness == r_pc = "return" /\ r_arg = 199 /\ r_num = 1

\* C2: reduce_number returns the first value of n, digitsum(n), ... that is
\* <= 9 or a master number: the master-number test is made on the current value
\* before every digit summation; 29 and 38 give 11, and 11, 22, 33 themselves.
C2_ReduceIsFirstStop ==
    r_pc = "return" =>
        /\ r_num = FirstStop(r_arg)
        /\ (r_arg \in {29, 38} => r_num = 11)
        /\ (r_arg \in {11, 22, 33} => r_num = r_arg)

\* a call on 29 returned the intermediate master number 11
C2_Witness == r_pc = "return" /\ r_arg = 29 /\ r_num = 11

Calculated(s) == \E i \in 1..Len(trace[s]) : trace[s][i].ev = "calculated"

Profile(s) ==
    <<life_path[s].val, expression_number[s].val, soul_urge_number[s].val,
      personality_number[s].val>>

\* C3 as claimed: after the calculations of a submission that passed the input
\* check, each of the four numbers is in 1..9, 11, 22, 33, none is 0.
C3_ProfileNeverZero ==
    \A s \in Sessions :
        Calculated(s) => \A i \in 1..4 : Profile(s)[i] \in ProfileRange

\* C3 as amended: after the calculations of a submission that passed the input
\* check, the life path is in 1..9, 11, 22, 33 and each of expression, soul urge
\* and personality is in 0..9, 11, 22, 33.
C3_ProfileInReducedRange ==
    \A s \in Sessions :
        Calculated(s) =>
            /\ full_name[s] # <<>>
            /\ Profile(s)[1] \in ProfileRange
            /\ \A i \in 2..4 : Profile(s)[i] \in ReducedRange

\* the name "nn" passed the input check and its soul urge is 0
C3_Witness ==
    /\ Calculated("A")
    /\ full_name["A"] = <<110, 110>>
    /\ soul_urge_number["A"] = Value(0)
    /\ personality_number["A"] = Value(1)

\* C4: the life path of a date is the reduction of year + month + day, the three
\* added as whole integers before any reduction; 1990-05-15 gives 3.
C4_LifePathSumThenReduce ==
    d_life.st = "ok" =>
        /\ d_life.val = FirstStop(d_date.year + d_date.month + d_date.day)
        /\ (d_date = [year |-> 1990, month |-> 5, day |-> 15] => d_life.val = 3)

\* a life path was computed that reducing each part before summing would not give
C4_Witness ==
    /\ d_life.st = "ok"
    /\ d_life.val # FirstStop(FirstStop(d_date.year) + FirstStop(d_date.month)
                              + FirstStop(d_date.day))

\* alphabet position of an ASCII letter, and the ASCII vowels, both cases
AlphabetPosition(c) == IF c \in 65..90 THEN c - 64 ELSE c - 96
VowelLetters == {65, 69, 73, 79, 85, 97, 101, 105, 111, 117}

\* the sum of the alphabet positions of the characters of name that are in set
PositionSum(name, set) ==
    SumSeq([i \in 1..Len(name) |->
               IF name[i] \in set THEN AlphabetPosition(name[i]) ELSE 0])

\* no character of the name is a letter outside a..z, A..Z
OnlyAsciiLetters(name) ==
    \A i \in 1..Len(name) : isalpha(name[i]) => name[i] \in AsciiLetters

\* C5: the vowels a, e, i, o, u of a name count with their alphabet position toward
\* soul urge only, every other letter a..z (y too) toward personality only,
\* non-letters toward neither, and expression reduces the sum over all letters;
\* "Ann" gives 11, 1, 1 and the empty name 0, 0, 0.
C5_LettersCountOnce ==
    /\ n_soul # NotRun =>
          n_soul = Value(reduce_number(PositionSum(n_name, VowelLetters)))
    /\ (n_pers # NotRun /\ OnlyAsciiLetters(n_name)) =>
          n_pers = Value(reduce_number(PositionSum(n_name, AsciiLetters \ VowelLetters)))
    /\ (n_expr # NotRun /\ OnlyAsciiLetters(n_name)) =>
          n_expr = Value(reduce_number(PositionSum(n_name, VowelLetters)
                                       + PositionSum(n_name, AsciiLetters \ VowelLetters)))
    /\ n_name = <<65, 110, 110>> =>
          /\ n_expr \in {NotRun, Value(11)}
          /\ n_soul \in {NotRun, Value(1)}
          /\ n_pers \in {NotRun, Value(1)}
    /\ n_name = <<>> =>
          /\ n_expr \in {NotRun, Value(0)}
          /\ n_soul \in {NotRun, Value(0)}
          /\ n_pers \in {NotRun, Value(0)}

\* the three calculators have run on "Ann"
C5_Witness ==
    /\ n_name = <<65, 110, 110>>
    /\ n_expr = Value(11)
    /\ n_soul = Value(1)
    /\ n_pers = Value(1)

\* C6: in any name only the letters a..z, A..Z count, each with a value in 1..26;
\* every other character, accented letters included, counts nothing.
C6_OnlyAsciiLettersCount ==
    /\ n_expr # NotRun => n_expr = Value(reduce_number(PositionSum(n_name, AsciiLetters)))
    /\ n_soul # NotRun => n_soul = Value(reduce_number(PositionSum(n_name, VowelLetters)))
    /\ n_pers # NotRun =>
          n_pers = Value(reduce_number(PositionSum(n_name, AsciiLetters \ VowelLetters)))

\* C7: a submission with an empty name ends with the validation error alone:
\* nothing is calculated, requested, shown, charted, written or read.
C7_EmptyNameOnlyReportsError ==
    \A s \in Sessions :
        (pc[s] \notin {"idle", "check"} /\ full_name[s] = <<>>) =>
            /\ pc[s] = "done"
            /\ trace[s] = <<Ev("st.error", "validation", 0)>>
            /\ life_path[s] = NotRun
            /\ expression_number[s] = NotRun
            /\ soul_urge_number[s] = NotRun
            /\ personality_number[s] = NotRun
            /\ opened[s] = <<>>

\* the form was submitted with the empty name and the error was reported
C7_Witness ==
    /\ pc["A"] = "done"
    /\ full_name["A"] = <<>>
    /\ trace["A"] = <<Ev("st.error", "validation", 0)>>

ServiceFailed(s) ==
    \E i \in 1..Len(trace[s]) : trace[s][i] = Ev("raise", "ServiceError", 0)

RenderEvents == {"show", "chart", "pdf", "open", "download"}

\* C8: once an advice request has failed the run is over: the failure is the last
\* effect of the run, no later request is made, nothing is shown, charted,
\* written or read, and the run takes no further step.
C8_FailureAbortsRun ==
    /\ [](\A s \in Sessions :
            ServiceFailed(s) =>
                /\ pc[s] = "exception"
                /\ trace[s][Len(trace[s])] = Ev("raise", "ServiceError", 0)
                /\ \A i \in 1..Len(trace[s]) : trace[s][i].ev \notin RenderEvents
                /\ opened[s] = <<>>)
    /\ [][\A s \in Sessions :
            ServiceFailed(s) =>
                /\ pc'[s] = pc[s]
                /\ trace'[s] = trace[s]
                /\ opened'[s] = opened[s]]_vars

\* the career request was answered and the relationship request failed
C8_Witness ==
    /\ pc["A"] = "exception"
    /\ Len(trace["A"]) = 4
    /\ trace["A"][2].what = "career"
    /\ trace["A"][3] = Ev("request", "relationship", soul_urge_number["A"].val)
    /\ trace["A"][4] = Ev("raise", "ServiceError", 0)

\* the advice requests of a trace, in order
Requests(tr) ==
    LET IsRequest(e) == e.ev = "request"
        reqs == SelectSeq(tr, IsRequest)
    IN  [i \in 1..Len(reqs) |-> reqs[i].what]

\* C9: a run that shows, charts or writes anything has by then computed the four
\* numbers and then made exactly three advice requests, one of each kind, none
\* failed and none repeated; no request is made before the numbers are computed
\* or after the report is shown.
C9_ThreeRequestsBeforeRender ==
    \A s \in Sessions :
        \A i \in 1..Len(trace[s]) :
            /\ trace[s][i].ev \in RenderEvents =>
                  LET before == SubSeq(trace[s], 1, i - 1)
                      reqs == Requests(before)
                  IN  /\ Len(reqs) = 3
                      /\ {reqs[j] : j \in 1..3} = {"career", "relationship", "action"}
                      /\ \A j \in 1..(i - 1) : before[j].ev # "raise"
                      /\ Requests(trace[s]) = reqs
            /\ trace[s][i].ev = "request" =>
                  /\ i > 1
                  /\ trace[s][1].ev = "calculated"

\* a run went through to the download button
C9_Witness ==
    /\ pc["A"] = "done"
    /\ Len(trace["A"]) = 9
    /\ trace["A"][9].ev = "download"
    /\ Requests(trace["A"]) = <<"career", "relationship", "action">>

\* C10: what a session opens and hands to its download button is the report
\* generated from its own numbers and advice texts, however two sessions interleave.
C10_OpensOwnReport ==
    \A s \in Sessions : opened[s] # <<>> => opened[s] = <<OwnReport(s)>>

====
